---- MODULE Spec2Model ----
(***************************************************************************)
(* A model of pdftl's page-specification engine and of the commands built  *)
(* on it: the page selection that spin resolves (commands/spin.py), move   *)
(* (commands/move.py), and the parts of utils/page_specs.py and cat that   *)
(* they rely on.                                                           *)
(*                                                                         *)
(* A spec text is kept as its parse tree: a record with the bounds as      *)
(* written (a literal number or the keyword `end`), the qualifiers and the *)
(* omissions in textual order.  A spin argument is the sequence of the     *)
(* texts between its colons; a bracket-expander token is a sequence of     *)
(* characters.                                                             *)
(***************************************************************************)
EXTENDS Integers, Sequences, FiniteSets, TLC

\* ------------------------------------------------------------------ bounds

\* Largest document, in pages.
MaxPages == 4

\* Most omissions (~x-y) written after one range.
MaxOms == 2

\* Most spec tokens given to cat.
MaxCatSpecs == 2

\* Most tokens given to the bracket expander.
MaxTokens == 2

\* Most command-line tokens given to parse_move_args.
MaxArgs == 4

\* Most specs given to one spin call.
MaxSpecs == 3

\* Largest coordinate of a crop box.
MaxCoord == 3

\* ------------------------------------------------------------ spec texts

\* The keyword `end` as a page reference; literals are the numbers >= 0.
End == -1

Min(a, b) == IF a <= b THEN a ELSE b
Max(a, b) == IF a >= b THEN a ELSE b

Reverse(s) == [i \in 1..Len(s) |-> s[Len(s) + 1 - i]]

SeqToSet(s) == {s[i] : i \in 1..Len(s)}

\* A page selection "<start>-<end><rotation><qualifiers>~<om>~<om>".
SelRot(s, e, q, o, r) ==
    [kind |-> "sel", start |-> s, end |-> e, quals |-> q, oms |-> o, rot |-> r,
     val |-> 0, handle |-> ""]

\* The same without a rotation keyword.
Sel(s, e, q, o) == SelRot(s, e, q, o, "none")

\* A text that is one number, such as "90" or "-20".
Num(v) ==
    [kind |-> "num", start |-> v, end |-> v, quals |-> {}, oms |-> <<>>,
     rot |-> "none", val |-> v, handle |-> ""]

\* A text that is neither a number nor a page selection, such as "abc".
Junk ==
    [kind |-> "junk", start |-> 0, end |-> 0, quals |-> {}, oms |-> <<>>,
     rot |-> "none", val |-> 0, handle |-> ""]

\* A text of several selections with commas between them, such as "2,2".
CommaList(ts) == [kind |-> "list", parts |-> ts, handle |-> ""]

\* A selection text with a handle in front, such as "B2-end".
Handled(h, t) == [t EXCEPT !.handle = h]

\* A bare handle, such as "B".
Bare(h) ==
    [kind |-> "bare", start |-> 0, end |-> 0, quals |-> {}, oms |-> <<>>,
     rot |-> "none", val |-> 0, handle |-> h]

\* ---------------------------------------- utils/page_specs.py (not in src/)

\* PageSpec, the value parse_specs yields: numbers only.
PageSpec(s, e, r, q, o) ==
    [start |-> s, end |-> e, rotation |-> r, qualifiers |-> q, omissions |-> o]

NoPageSpec == PageSpec(0, 0, "none", {}, <<>>)

\* `end` becomes the page count, a literal stays.
Subst(ref, total) == IF ref = End THEN total ELSE ref

SubstOms(oms, total) ==
    [i \in 1..Len(oms) |-> <<Subst(oms[i][1], total), Subst(oms[i][2], total)>>]

InDoc(p, total) == 1 <= p /\ p <= total

\* One selection text against a page count: a PageSpec, or the error raised.
ParseSubSpec(t, total) ==
    IF t.kind = "junk" \/ (t.kind = "num" /\ t.val < 0)
    THEN [err |-> "SyntaxError", spec |-> NoPageSpec]
    ELSE LET s == IF t.kind = "bare" THEN 1 ELSE Subst(t.start, total)
             e == IF t.kind = "bare" THEN total ELSE Subst(t.end, total)
         IN  IF ~InDoc(s, total) \/ ~InDoc(e, total)
             THEN [err |-> "RangeError", spec |-> NoPageSpec]
             ELSE [err |-> "none",
                   spec |-> PageSpec(s, e, t.rot, t.quals, SubstOms(t.oms, total))]

\* parse_specs([page_sel_str], total_pages): page_sel_str is the texts before
\* the last colon; a selection that still holds a colon does not parse.
parse_specs(sel, total) ==
    IF Len(sel) # 1
    THEN [err |-> "SyntaxError", spec |-> NoPageSpec]
    ELSE ParseSubSpec(sel[1], total)

\* ------------------------------------------------------ commands/spin.py

\* Python's range(start, stop, step) as a list.
PyRange(start, stop, step) ==
    LET n == IF step > 0
             THEN (IF stop > start THEN (stop - start + step - 1) \div step ELSE 0)
             ELSE (IF stop < start THEN (start - stop - step - 1) \div (0 - step) ELSE 0)
    IN  [i \in 1..n |-> start + (i - 1) * step]

\* A mutant of BaseRange: the stop of range() is the end bound itself, so the
\* last page of the range is left out.
BaseRange_ExclusiveEnd(ps) ==
    LET step == IF ps.start <= ps.end THEN 1 ELSE -1
    IN  PyRange(ps.start, ps.end, step)

\* A mutant of BaseRange: the stop of range() is one step too far.
BaseRange_Overshoot(ps) ==
    LET step == IF ps.start <= ps.end THEN 1 ELSE -1
    IN  PyRange(ps.start, ps.end + step + step, step)

\* spin.py 79-80
BaseRange(ps) ==
    LET step == IF ps.start <= ps.end THEN 1 ELSE -1
    IN  PyRange(ps.start, ps.end + step, step)

\* A mutant of ApplyQualifiers: the parity tested is that of the position in
\* the list (enumerate's index), not that of the page number.
ApplyQualifiers_ByIndex(nums, quals) ==
    LET Keep(s, r) == [j \in 1..((Len(s) + 1 - r) \div 2) |-> s[2 * j - 1 + r]]
        a == IF "even" \in quals THEN Keep(nums, 0) ELSE nums
    IN  IF "odd" \in quals THEN Keep(a, 1) ELSE a

\* spin.py 83-86
ApplyQualifiers(nums, quals) ==
    LET a == IF "even" \in quals THEN SelectSeq(nums, LAMBDA p : p % 2 = 0) ELSE nums
    IN  IF "odd" \in quals THEN SelectSeq(a, LAMBDA p : p % 2 # 0) ELSE a

\* A mutant of ApplyOmissions: each omission filters the unfiltered list, so
\* only the last omission written takes effect.
ApplyOmissions_LastOnly(nums, oms) ==
    IF oms = <<>> THEN nums
    ELSE SelectSeq(nums, LAMBDA p : ~(oms[Len(oms)][1] <= p /\ p <= oms[Len(oms)][2]))

\* spin.py 89-90
RECURSIVE ApplyOmissions(_, _)
ApplyOmissions(nums, oms) ==
    IF oms = <<>> THEN nums
    ELSE ApplyOmissions(
             SelectSeq(nums, LAMBDA p : ~(oms[1][1] <= p /\ p <= oms[1][2])),
             Tail(oms))

\* spin.py 79-90: the page numbers spin transforms for one PageSpec.
SpinPageNumbers(ps) ==
    ApplyOmissions(ApplyQualifiers(BaseRange(ps), ps.qualifiers), ps.omissions)

\* The state one loop pass of spin_pdf leaves (spin.py 93-96): each selected
\* number i reads pdf.pages[i - 1] and the page gets the transform at its head.
apply_spin(page, angle) == [page EXCEPT !.ops = <<angle>> \o @]

RECURSIVE SpinPages(_, _, _)
SpinPages(pgs, nums, angle) ==
    IF nums = <<>>
    THEN [pages |-> pgs, indexed |-> <<>>, err |-> "none"]
    ELSE LET raw == nums[1] - 1
             idx == IF raw < 0 THEN raw + Len(pgs) ELSE raw
         IN  IF idx < 0 \/ idx >= Len(pgs)
             THEN [pages |-> pgs, indexed |-> <<raw>>, err |-> "IndexError"]
             ELSE LET rest == SpinPages(
                                  [pgs EXCEPT ![idx + 1] = apply_spin(@, angle)],
                                  Tail(nums), angle)
                  IN  [pages |-> rest.pages,
                       indexed |-> <<raw>> \o rest.indexed,
                       err |-> rest.err]

\* ---------------------------------------- utils/page_specs.py (not in src/)

\* The resolver of one PageSpec: the base sequence, the qualifier filter,
\* then every omission as the inclusive interval between its two bounds.
Resolve(ps) ==
    LET RECURSIVE Omit(_, _)
        Omit(nums, oms) ==
            IF oms = <<>> THEN nums
            ELSE Omit(SelectSeq(nums,
                          LAMBDA p : ~(Min(oms[1][1], oms[1][2]) <= p
                                       /\ p <= Max(oms[1][1], oms[1][2]))),
                      Tail(oms))
        step == IF ps.start <= ps.end THEN 1 ELSE -1
        base == PyRange(ps.start, ps.end + step, step)
        a == IF "even" \in ps.qualifiers
             THEN SelectSeq(base, LAMBDA p : p % 2 = 0) ELSE base
        b == IF "odd" \in ps.qualifiers
             THEN SelectSeq(a, LAMBDA p : p % 2 # 0) ELSE a
    IN  Omit(b, ps.omissions)

\* page_numbers_matching_page_spec(spec, total_pages): the 1-based numbers a
\* spec text selects, or the error raised.
ResolveOne(t, total) ==
    LET r == ParseSubSpec(t, total)
    IN  IF r.err # "none" THEN [err |-> r.err, nums |-> <<>>]
        ELSE [err |-> "none", nums |-> Resolve(r.spec)]

\* The selections of the parts of a comma list, one after the other; the
\* first part that does not resolve gives the error.
RECURSIVE ResolveParts(_, _)
ResolveParts(parts, total) ==
    IF parts = <<>> THEN [err |-> "none", nums |-> <<>>]
    ELSE LET first == ResolveOne(Head(parts), total)
             rest == ResolveParts(Tail(parts), total)
         IN  IF first.err # "none" THEN first
             ELSE IF rest.err # "none" THEN rest
             ELSE [err |-> "none", nums |-> first.nums \o rest.nums]

page_numbers_matching_page_spec(t, total) ==
    IF t.kind = "list" THEN ResolveParts(t.parts, total) ELSE ResolveOne(t, total)

\* ------------------------------------------------------ commands/move.py

\* sorted([n - 1 for n in nums])
SortedIndices(nums) == SortSeq([i \in 1..Len(nums) |-> nums[i] - 1], <)

\* A mutant of AnchorOrig: `after` takes the index of the last target page.
AnchorOrig_NoPlusOne(mode, tidx) == IF mode = "before" THEN tidx[1] ELSE tidx[Len(tidx)]

\* move.py 61-64
AnchorOrig(mode, tidx) == IF mode = "before" THEN tidx[1] ELSE tidx[Len(tidx)] + 1

\* A mutant of AnchorFinal: the anchor is not adjusted for the removed pages.
AnchorFinal_NoAdjust(anchor, sidx) == anchor

\* A mutant of AnchorFinal: a source page at the anchor counts as well.
AnchorFinal_Inclusive(anchor, sidx) ==
    anchor - Cardinality({i \in 1..Len(sidx) : sidx[i] <= anchor})

\* A mutant of AnchorFinal: every source index counts, below the anchor or not.
AnchorFinal_CountAll(anchor, sidx) == anchor - Len(sidx)

\* move.py 69-70
AnchorFinal(anchor, sidx) ==
    anchor - Cardinality({i \in 1..Len(sidx) : sidx[i] < anchor})

\* A mutant of DelAt: the index is taken as 1-based.
DelAt_OneBased(s, i) == SubSeq(s, 1, i - 1) \o SubSeq(s, i + 1, Len(s))

\* del pages[i], i a 0-based index
DelAt(s, i) == SubSeq(s, 1, i) \o SubSeq(s, i + 2, Len(s))

\* A mutant of DelAll: the source indices are deleted from the lowest to the
\* highest, each deletion shifting the pages the later indices point at.
RECURSIVE DelAll_Ascending(_, _)
DelAll_Ascending(s, idxs) ==
    IF idxs = <<>> THEN s
    ELSE IF idxs[1] >= Len(s) THEN s
    ELSE DelAll_Ascending(DelAt(s, idxs[1]), SubSeq(idxs, 2, Len(idxs)))

\* move.py 77-78: delete the source indices from the highest to the lowest.
RECURSIVE DelAll(_, _)
DelAll(s, idxs) ==
    IF idxs = <<>> THEN s
    ELSE DelAll(DelAt(s, idxs[Len(idxs)]), SubSeq(idxs, 1, Len(idxs) - 1))

\* A mutant of InsertAt: the block goes to the end of the document.
InsertAt_Append(s, at, block) == s \o block

\* A mutant of InsertAt: the block goes in last page first.
InsertAt_Reversed(s, at, block) ==
    LET a == Min(Max(at, 0), Len(s))
    IN  SubSeq(s, 1, a) \o Reverse(block) \o SubSeq(s, a + 1, Len(s))

\* A slice bound as Python reads it: a negative bound counts from the end,
\* and the result is clamped to the list.
SliceBound(at, len) == Min(Max(IF at < 0 THEN at + len ELSE at, 0), len)

\* move.py 83: pages[at:at] = block
InsertAt(s, at, block) ==
    LET a == SliceBound(at, Len(s))
    IN  SubSeq(s, 1, a) \o block \o SubSeq(s, a + 1, Len(s))

\* ------------------------------------------------------------------ state

VARIABLES
    cmd,            \* the command run: "spin" or "move"
    pages,          \* pdf.pages: the document's pages in order
    total_pages,    \* the page count read when the command began
    specs,          \* spin's arguments
    k,              \* spin: the argument the loop stands at
    margs,          \* move's MoveSpec
    pc,             \* where the command stands
    err,            \* the exception that ended the command, or "none"
    warnings,       \* warnings logged
    page_spec,      \* spin: the PageSpec parse_specs yielded last
    page_numbers,   \* spin: the page numbers computed last
    indexed,        \* the indices i of pdf.pages[i] read for the current spec
    xlog,           \* every transform applied: the argument and the page
    source_indices, \* move
    target_indices, \* move
    anchor_orig,    \* move: the anchor in the original numbering
    anchor_final,   \* move: the anchor once the source pages are removed
    catspecs,       \* cat's spec tokens
    out,            \* cat: the pages written so far
    tokens,         \* the bracket expander's argument
    expanded,       \* the bracket expander's result
    args,           \* parse_move_args: the command-line tokens
    bindings,       \* cat: the handle=document bindings, as declared
    cropbox,        \* apply_spin: page.cropbox
    angle,          \* apply_spin: the angle in degrees
    cm              \* apply_spin: the matrix put at the head of the content

vars == <<cmd, pages, total_pages, specs, k, margs, pc, err, warnings, page_spec,
          page_numbers, indexed, xlog, source_indices, target_indices,
          anchor_orig, anchor_final,
          catspecs, out, tokens, expanded, args, bindings, cropbox, angle, cm>>

\* What spin and move leave alone.
otherVars ==
    <<catspecs, out, tokens, expanded, args, bindings, cropbox, angle, cm>>

Page(i) == [id |-> i, rotate |-> 0, ops |-> <<>>]

Document(n) == [i \in 1..n |-> Page(i)]

NoMove == [source_spec |-> Junk, mode |-> "before", target_spec |-> Junk]

\* ---------------------------------------------------- spin_pdf, spin.py 54-101

\* spin.py 56
SpinBegin ==
    /\ cmd = "spin" /\ pc = "start"
    /\ total_pages' = Len(pages)
    /\ k' = 1
    /\ pc' = "spin_loop"
    /\ UNCHANGED otherVars
    /\ UNCHANGED <<cmd, pages, specs, margs, err, warnings, page_spec, page_numbers,
                   indexed, xlog, source_indices, target_indices,
                   anchor_orig, anchor_final>>

InSpinLoop == cmd = "spin" /\ pc = "spin_loop" /\ k <= Len(specs)

\* raw_spec.rsplit(":", 1)
page_sel_str(raw) == SubSeq(raw, 1, Len(raw) - 1)
angle_str(raw) == raw[Len(raw)]

\* A mutant of IsFloat: every text passes for a number.
IsFloat_Any(t) == TRUE

\* float(angle_str) succeeds
IsFloat(t) == t.kind = "num"

\* A mutant of ParseSelection: the page count passed is the last index.
ParseSelection_LastIndex(sel) == parse_specs(sel, total_pages - 1)

\* spin.py 76: the selection is parsed against the page count read at line 56.
ParseSelection(sel) == parse_specs(sel, total_pages)

\* A mutant of SpinSkip: the loop ends at the spec without a colon.
SpinSkip_Break ==
    /\ InSpinLoop
    /\ Len(specs[k]) = 1
    /\ warnings' = warnings + 1
    /\ k' = Len(specs) + 1
    /\ indexed' = <<>>
    /\ UNCHANGED otherVars
    /\ UNCHANGED <<cmd, pages, total_pages, specs, margs, pc, err, page_spec,
                   page_numbers, xlog, source_indices, target_indices,
                   anchor_orig, anchor_final>>

\* spin.py 60-67: no colon, a warning, and on to the next spec.
SpinSkip ==
    /\ InSpinLoop
    /\ Len(specs[k]) = 1
    /\ warnings' = warnings + 1
    /\ k' = k + 1
    /\ indexed' = <<>>
    /\ UNCHANGED otherVars
    /\ UNCHANGED <<cmd, pages, total_pages, specs, margs, pc, err, page_spec,
                   page_numbers, xlog, source_indices, target_indices,
                   anchor_orig, anchor_final>>

\* A mutant of SpinBadAngle: the transforms of the earlier specs are undone
\* before the exception leaves.
SpinBadAngle_Rollback ==
    /\ InSpinLoop
    /\ Len(specs[k]) > 1
    /\ ~IsFloat(angle_str(specs[k]))
    /\ pages' = [i \in 1..Len(pages) |-> [pages[i] EXCEPT !.ops = <<>>]]
    /\ err' = "ValueError"
    /\ pc' = "error"
    /\ indexed' = <<>>
    /\ UNCHANGED otherVars
    /\ UNCHANGED <<cmd, total_pages, specs, k, margs, warnings, page_spec,
                   page_numbers, xlog, source_indices, target_indices,
                   anchor_orig, anchor_final>>

\* spin.py 69-72
SpinBadAngle ==
    /\ InSpinLoop
    /\ Len(specs[k]) > 1
    /\ ~IsFloat(angle_str(specs[k]))
    /\ err' = "ValueError"
    /\ pc' = "error"
    /\ indexed' = <<>>
    /\ UNCHANGED otherVars
    /\ UNCHANGED <<cmd, pages, total_pages, specs, k, margs, warnings, page_spec,
                   page_numbers, xlog, source_indices, target_indices,
                   anchor_orig, anchor_final>>

\* spin.py 76: parse_specs raises.
SpinParseError ==
    /\ InSpinLoop
    /\ Len(specs[k]) > 1
    /\ IsFloat(angle_str(specs[k]))
    /\ LET r == ParseSelection(page_sel_str(specs[k]))
       IN  /\ r.err # "none"
           /\ err' = r.err
    /\ pc' = "error"
    /\ indexed' = <<>>
    /\ UNCHANGED otherVars
    /\ UNCHANGED <<cmd, pages, total_pages, specs, k, margs, warnings, page_spec,
                   page_numbers, xlog, source_indices, target_indices,
                   anchor_orig, anchor_final>>

\* spin.py 76-96: the selection is computed and every page of it transformed.
SpinApply ==
    /\ InSpinLoop
    /\ Len(specs[k]) > 1
    /\ IsFloat(angle_str(specs[k]))
    /\ LET r == ParseSelection(page_sel_str(specs[k]))
           nums == SpinPageNumbers(r.spec)
           done == SpinPages(pages, nums, angle_str(specs[k]).val)
           ok == Len(done.indexed) - (IF done.err = "none" THEN 0 ELSE 1)
       IN  /\ r.err = "none"
           /\ page_spec' = r.spec
           /\ page_numbers' = nums
           /\ pages' = done.pages
           /\ indexed' = done.indexed
           /\ xlog' = xlog \o [i \in 1..ok |-> [spec |-> k, page |-> nums[i]]]
           /\ err' = done.err
           /\ pc' = IF done.err = "none" THEN pc ELSE "error"
           /\ k' = IF done.err = "none" THEN k + 1 ELSE k
    /\ UNCHANGED otherVars
    /\ UNCHANGED <<cmd, total_pages, specs, margs, warnings, source_indices,
                   target_indices, anchor_orig, anchor_final>>

\* spin.py 101
SpinReturn ==
    /\ cmd = "spin" /\ pc = "spin_loop" /\ k > Len(specs)
    /\ pc' = "done"
    /\ UNCHANGED otherVars
    /\ UNCHANGED <<cmd, pages, total_pages, specs, k, margs, err, warnings, page_spec,
                   page_numbers, indexed, xlog, source_indices, target_indices,
                   anchor_orig, anchor_final>>

\* -------------------------------------------------- move_pages, move.py 38-87

\* move.py 39-40
MoveBegin ==
    /\ cmd = "move" /\ pc = "start"
    /\ total_pages' = Len(pages)
    /\ pc' = "move_source"
    /\ UNCHANGED otherVars
    /\ UNCHANGED <<cmd, pages, specs, k, margs, err, warnings, page_spec, page_numbers,
                   indexed, xlog, source_indices, target_indices,
                   anchor_orig, anchor_final>>

\* move.py 44: the source spec does not resolve.
MoveSourceError ==
    /\ cmd = "move" /\ pc = "move_source"
    /\ LET r == page_numbers_matching_page_spec(margs.source_spec, total_pages)
       IN  /\ r.err # "none"
           /\ err' = r.err
    /\ pc' = "error"
    /\ UNCHANGED otherVars
    /\ UNCHANGED <<cmd, pages, total_pages, specs, k, margs, warnings, page_spec,
                   page_numbers, indexed, xlog, source_indices, target_indices,
                   anchor_orig, anchor_final>>

\* A mutant of MoveSourceEmpty: a warning, and on to the target.
MoveSourceEmpty_Continue ==
    /\ cmd = "move" /\ pc = "move_source"
    /\ LET r == page_numbers_matching_page_spec(margs.source_spec, total_pages)
       IN  r.err = "none" /\ r.nums = <<>>
    /\ warnings' = warnings + 1
    /\ pc' = "move_target"
    /\ UNCHANGED otherVars
    /\ UNCHANGED <<cmd, pages, total_pages, specs, k, margs, err, page_spec,
                   page_numbers, indexed, xlog, source_indices, target_indices,
                   anchor_orig, anchor_final>>

\* move.py 45-47
MoveSourceEmpty ==
    /\ cmd = "move" /\ pc = "move_source"
    /\ LET r == page_numbers_matching_page_spec(margs.source_spec, total_pages)
       IN  r.err = "none" /\ r.nums = <<>>
    /\ warnings' = warnings + 1
    /\ pc' = "done"
    /\ UNCHANGED otherVars
    /\ UNCHANGED <<cmd, pages, total_pages, specs, k, margs, err, page_spec,
                   page_numbers, indexed, xlog, source_indices, target_indices,
                   anchor_orig, anchor_final>>

\* move.py 44-49
MoveSource ==
    /\ cmd = "move" /\ pc = "move_source"
    /\ LET r == page_numbers_matching_page_spec(margs.source_spec, total_pages)
       IN  /\ r.err = "none" /\ r.nums # <<>>
           /\ source_indices' = SortedIndices(r.nums)
    /\ pc' = "move_target"
    /\ UNCHANGED otherVars
    /\ UNCHANGED <<cmd, pages, total_pages, specs, k, margs, err, warnings, page_spec,
                   page_numbers, indexed, xlog, target_indices, anchor_orig, anchor_final>>

\* move.py 52: the target spec does not resolve.
MoveTargetError ==
    /\ cmd = "move" /\ pc = "move_target"
    /\ LET r == page_numbers_matching_page_spec(margs.target_spec, total_pages)
       IN  /\ r.err # "none"
           /\ err' = r.err
    /\ pc' = "error"
    /\ UNCHANGED otherVars
    /\ UNCHANGED <<cmd, pages, total_pages, specs, k, margs, warnings, page_spec,
                   page_numbers, indexed, xlog, source_indices, target_indices,
                   anchor_orig, anchor_final>>

\* A mutant of MoveTargetEmpty: the source pages are removed before the raise.
MoveTargetEmpty_AfterRemoval ==
    /\ cmd = "move" /\ pc = "move_target"
    /\ LET r == page_numbers_matching_page_spec(margs.target_spec, total_pages)
       IN  r.err = "none" /\ r.nums = <<>>
    /\ pages' = DelAll(pages, source_indices)
    /\ err' = "UserCommandLineError"
    /\ pc' = "error"
    /\ UNCHANGED otherVars
    /\ UNCHANGED <<cmd, total_pages, specs, k, margs, warnings, page_spec,
                   page_numbers, indexed, xlog, source_indices, target_indices,
                   anchor_orig, anchor_final>>

\* move.py 53-54
MoveTargetEmpty ==
    /\ cmd = "move" /\ pc = "move_target"
    /\ LET r == page_numbers_matching_page_spec(margs.target_spec, total_pages)
       IN  r.err = "none" /\ r.nums = <<>>
    /\ err' = "UserCommandLineError"
    /\ pc' = "error"
    /\ UNCHANGED otherVars
    /\ UNCHANGED <<cmd, pages, total_pages, specs, k, margs, warnings, page_spec,
                   page_numbers, indexed, xlog, source_indices, target_indices,
                   anchor_orig, anchor_final>>

\* A mutant of MoveTarget: the target is resolved against the page count
\* left once the source pages are out.
MoveTarget_ShrunkCount ==
    /\ cmd = "move" /\ pc = "move_target"
    /\ LET r == page_numbers_matching_page_spec(margs.target_spec,
                                                total_pages - Len(source_indices))
       IN  /\ r.err = "none" /\ r.nums # <<>>
           /\ target_indices' = SortedIndices(r.nums)
           /\ anchor_orig' = AnchorOrig(margs.mode, SortedIndices(r.nums))
           /\ anchor_final' = AnchorFinal(AnchorOrig(margs.mode, SortedIndices(r.nums)),
                                          source_indices)
    /\ pc' = "move_pages"
    /\ UNCHANGED otherVars
    /\ UNCHANGED <<cmd, pages, total_pages, specs, k, margs, err, warnings, page_spec,
                   page_numbers, indexed, xlog, source_indices>>

\* move.py 52-70
MoveTarget ==
    /\ cmd = "move" /\ pc = "move_target"
    /\ LET r == page_numbers_matching_page_spec(margs.target_spec, total_pages)
       IN  /\ r.err = "none" /\ r.nums # <<>>
           /\ target_indices' = SortedIndices(r.nums)
           /\ anchor_orig' = AnchorOrig(margs.mode, SortedIndices(r.nums))
           /\ anchor_final' = AnchorFinal(AnchorOrig(margs.mode, SortedIndices(r.nums)),
                                          source_indices)
    /\ pc' = "move_pages"
    /\ UNCHANGED otherVars
    /\ UNCHANGED <<cmd, pages, total_pages, specs, k, margs, err, warnings, page_spec,
                   page_numbers, indexed, xlog, source_indices>>

\* move.py 77-78 as far as it gets: `del pdf.pages[i]` raises IndexError for
\* an index past the pages left, with the earlier deletions done.
RECURSIVE DelOutcome(_, _)
DelOutcome(s, idxs) ==
    IF idxs = <<>> THEN [pages |-> s, err |-> "none"]
    ELSE IF idxs[Len(idxs)] >= Len(s) THEN [pages |-> s, err |-> "IndexError"]
    ELSE DelOutcome(DelAt(s, idxs[Len(idxs)]), SubSeq(idxs, 1, Len(idxs) - 1))

\* move.py 74-78: a deletion raises.
MoveDeleteError ==
    /\ cmd = "move" /\ pc = "move_pages"
    /\ DelOutcome(pages, source_indices).err # "none"
    /\ pages' = DelOutcome(pages, source_indices).pages
    /\ err' = DelOutcome(pages, source_indices).err
    /\ pc' = "error"
    /\ UNCHANGED otherVars
    /\ UNCHANGED <<cmd, total_pages, specs, k, margs, warnings, page_spec,
                   page_numbers, indexed, xlog, source_indices, target_indices,
                   anchor_orig, anchor_final>>

\* move.py 74-87
MovePerform ==
    /\ cmd = "move" /\ pc = "move_pages"
    /\ DelOutcome(pages, source_indices).err = "none"
    /\ LET pages_to_move == [i \in 1..Len(source_indices) |-> pages[source_indices[i] + 1]]
       IN  pages' = InsertAt(DelAll(pages, source_indices), anchor_final, pages_to_move)
    /\ indexed' = source_indices
    /\ pc' = "done"
    /\ UNCHANGED otherVars
    /\ UNCHANGED <<cmd, total_pages, specs, k, margs, err, warnings, page_spec,
                   page_numbers, xlog, source_indices, target_indices,
                   anchor_orig, anchor_final>>

\* ------------------------------------------------------------- the inputs

\* A bound as written: `end`, or a literal from 0 to one past the largest document.
Refs == {End} \cup (0..(MaxPages + 1))

\* A bound that is `end` or a page of a document of n pages.
DocRefs(n) == {End} \cup (1..n)

Quals == SUBSET {"even", "odd"}

\* The omission lists of at most n omissions with bounds in B.
RECURSIVE OmLists(_, _)
OmLists(B, n) ==
    IF n = 0 THEN {<<>>}
    ELSE LET shorter == OmLists(B, n - 1)
         IN  shorter \cup {Append(l, <<x, y>>) : l \in shorter, x \in B, y \in B}

\* Selections: every range with every qualifier; for a document of n pages,
\* every range with every qualifier and one omission, all bounds in the
\* document; whole-document ranges with up to MaxOms literal omissions.
PlainSels == {Sel(s, e, q, <<>>) : s \in Refs, e \in Refs, q \in Quals}

OneOmSels(n) ==
    {Sel(r[1], r[2], q, <<o>>) : r \in DocRefs(n) \X DocRefs(n), q \in Quals,
                                 o \in DocRefs(n) \X DocRefs(n)}

ManyOmSels(n) ==
    {Sel(r[1], r[2], {}, o) : r \in {<<1, End>>, <<End, 1>>},
                              o \in OmLists(1..n, MaxOms)}

\* Spin arguments of one selection: "<sel>:90", and the malformed ones.
SpinArgs(n) ==
    {<<t, Num(90)>> : t \in PlainSels \cup OneOmSels(n)}
    \cup {<<Sel(1, End, {}, <<>>)>>,
          <<Sel(1, End, {}, <<>>), Junk>>,
          <<Junk, Num(90)>>,
          <<Num(1), Num(-90)>>,
          <<Num(0), Num(90)>>,
          <<Sel(1, End, {}, <<>>), Num(45), Num(90)>>}

MoveSels ==
    {Sel(s, e, {}, <<>>) : s \in Refs, e \in Refs}
    \cup {Sel(1, End, q, <<>>) : q \in Quals} \cup {Junk}

MoveArgs == [source_spec : MoveSels, mode : {"before", "after"}, target_spec : MoveSels]

\* move 3-5odd after 10: the source is pages 3 and 5.
MoveOddAfterTen ==
    [source_spec |-> Sel(3, 5, {"odd"}, <<>>), mode |-> "after",
     target_spec |-> Sel(10, 10, {}, <<>>)]

InitCommon ==
    /\ total_pages = 0
    /\ k = 0
    /\ pc = "start"
    /\ err = "none"
    /\ warnings = 0
    /\ page_spec = NoPageSpec
    /\ page_numbers = <<>>
    /\ indexed = <<>>
    /\ xlog = <<>>
    /\ source_indices = <<>>
    /\ target_indices = <<>>
    /\ anchor_orig = 0
    /\ anchor_final = 0

\* No page is handed to apply_spin on its own.
NoSpinMatrix == cropbox = <<>> /\ angle = 0 /\ cm = <<>>

NoOthers ==
    /\ catspecs = <<>>
    /\ out = <<>>
    /\ tokens = <<>>
    /\ expanded = <<>>
    /\ args = <<>>
    /\ bindings = <<>>
    /\ NoSpinMatrix

Init ==
    \/ /\ InitCommon
       /\ NoOthers
       /\ \E n \in 1..MaxPages :
              /\ pages = Document(n)
              /\ \/ /\ cmd = "spin"
                    /\ specs \in {<<a>> : a \in SpinArgs(n)}
                    /\ margs = NoMove
                 \/ /\ cmd = "spin"
                    /\ n = MaxPages
                    /\ specs \in {<<(<<t, Num(90)>>)>> : t \in ManyOmSels(n)}
                    /\ margs = NoMove
                 \/ /\ cmd = "move"
                    /\ specs = <<>>
                    /\ margs \in MoveArgs
    \/ /\ InitCommon
       /\ NoOthers
       /\ pages = Document(10)
       /\ cmd = "move"
       /\ specs = <<>>
       /\ margs = MoveOddAfterTen

Next ==
    \/ SpinBegin
    \/ SpinSkip
    \/ SpinBadAngle
    \/ SpinParseError
    \/ SpinApply
    \/ SpinReturn
    \/ MoveBegin
    \/ MoveSourceError
    \/ MoveSourceEmpty
    \/ MoveSource
    \/ MoveTargetError
    \/ MoveTargetEmpty
    \/ MoveTarget
    \/ MovePerform

Spec == Init /\ [][Next]_vars

\* ------------------------------------------ the selection spin resolves

\* spin has just computed page_numbers for the spec before position k: that
\* spec had a colon, a numeric angle and a selection that parsed.
Applied ==
    /\ cmd = "spin" /\ pc \in {"spin_loop", "done"} /\ k >= 2
    /\ Len(specs[k - 1]) = 2
    /\ IsFloat(specs[k - 1][2])
    /\ parse_specs(<<specs[k - 1][1]>>, total_pages).err = "none"

\* The text of the selection resolved last, and its bounds with `end` read as
\* the page count.
LastText == specs[k - 1][1]
LastStart == Subst(LastText.start, total_pages)
LastEnd == Subst(LastText.end, total_pages)

QualOK(p, quals) == ("even" \in quals => p % 2 = 0) /\ ("odd" \in quals => p % 2 = 1)

\* p lies in the inclusive numeric interval between the two bounds of om.
InInterval(p, om, total) ==
    /\ Min(Subst(om[1], total), Subst(om[2], total)) <= p
    /\ p <= Max(Subst(om[1], total), Subst(om[2], total))

Omitted(p, oms, total) == \E i \in 1..Len(oms) : InInterval(p, oms[i], total)

\* s runs in the direction from a to b, without repetition.
InDirection(s, a, b) ==
    \A i \in 1..Len(s) : \A j \in 1..Len(s) :
        i < j => IF a <= b THEN s[i] < s[j] ELSE s[i] > s[j]

\* C1: the resolved selection is exactly the subsequence of the base sequence
\* (start to end, `end` read as the page count) made of the numbers that
\* satisfy the qualifier and lie in no omission interval: base order, nothing
\* added, nothing twice.
C1_ExactSubsequence ==
    Applied =>
        /\ InDirection(page_numbers, LastStart, LastEnd)
        /\ SeqToSet(page_numbers) =
               {p \in Min(LastStart, LastEnd)..Max(LastStart, LastEnd) :
                    QualOK(p, LastText.quals)
                    /\ ~Omitted(p, LastText.oms, total_pages)}

\* C2: the selection of a-b read back to front is, element for element, the
\* selection of b-a.
C2_ReversedRange ==
    (Applied /\ LastText.quals = {} /\ LastText.oms = <<>>) =>
        LET swapped == parse_specs(<<Sel(LastText.end, LastText.start, {}, <<>>)>>,
                                   total_pages)
        IN  /\ swapped.err = "none"
            /\ Reverse(page_numbers) = SpinPageNumbers(swapped.spec)
            /\ SeqToSet(page_numbers) = Min(LastStart, LastEnd)..Max(LastStart, LastEnd)

C2_Witness ==
    /\ Applied /\ LastText.quals = {} /\ LastText.oms = <<>>
    /\ LastText.start = 1 /\ LastText.end = 3
    /\ page_numbers = <<1, 2, 3>>

\* C3: for every omission (x, y), whichever bound is written first and whatever
\* the direction of the range, every page between min(x,y) and max(x,y) is
\* absent from the result, and every other page of the qualifier-filtered
\* range is present.
C3_OmissionIntervals ==
    Applied =>
        /\ \A p \in SeqToSet(page_numbers) : ~Omitted(p, LastText.oms, total_pages)
        /\ \A p \in Min(LastStart, LastEnd)..Max(LastStart, LastEnd) :
               (QualOK(p, LastText.quals) /\ ~Omitted(p, LastText.oms, total_pages))
                   => p \in SeqToSet(page_numbers)

\* C4: the textual order of the omissions does not affect the result: every
\* permutation of the same omissions resolves to the same sequence.
C4_OmissionOrder ==
    (Applied /\ Len(LastText.oms) >= 2) =>
        \A f \in Permutations(1..Len(LastText.oms)) :
            LET t == [LastText EXCEPT !.oms = [i \in 1..Len(LastText.oms) |->
                                                   LastText.oms[f[i]]]]
                r == parse_specs(<<t>>, total_pages)
            IN  r.err = "none" /\ SpinPageNumbers(r.spec) = page_numbers

\* Two different omissions, each removing a page the other keeps, and a page
\* that survives both.
C4_Witness ==
    /\ Applied /\ Len(LastText.oms) = 2
    /\ LastText.oms[1] = <<1, 1>> /\ LastText.oms[2] = <<3, 4>>
    /\ LastText.start = 1 /\ LastText.end = End /\ total_pages = 4
    /\ page_numbers = <<2>>

\* C5: the selections of `a-b even` and `a-b odd` are disjoint, together hold
\* every page of a..b exactly once, and each lists its pages in the order of
\* the range: the even ones in one, the odd ones in the other.
C5_EvenOddPartition ==
    (Applied /\ LastText.oms = <<>> /\ LastText.quals \in {{"even"}, {"odd"}}) =>
        LET q == IF LastText.quals = {"even"} THEN {"odd"} ELSE {"even"}
            r == parse_specs(<<[LastText EXCEPT !.quals = q]>>, total_pages)
            other == SpinPageNumbers(r.spec)
            evens == IF LastText.quals = {"even"} THEN page_numbers ELSE other
            odds == IF LastText.quals = {"even"} THEN other ELSE page_numbers
        IN  /\ r.err = "none"
            /\ SeqToSet(evens) \cap SeqToSet(odds) = {}
            /\ SeqToSet(evens) \cup SeqToSet(odds) =
                   Min(LastStart, LastEnd)..Max(LastStart, LastEnd)
            /\ Len(evens) + Len(odds) = Max(LastStart, LastEnd) - Min(LastStart, LastEnd) + 1
            /\ InDirection(evens, LastStart, LastEnd)
            /\ InDirection(odds, LastStart, LastEnd)
            /\ \A p \in SeqToSet(evens) : p % 2 = 0
            /\ \A p \in SeqToSet(odds) : p % 2 = 1

C5_Witness ==
    /\ Applied /\ LastText.oms = <<>> /\ LastText.quals = {"odd"}
    /\ LastText.start = 4 /\ LastText.end = 1
    /\ page_numbers = <<3, 1>>

BadBound(t, total) ==
    /\ t.kind = "sel" \/ (t.kind = "num" /\ t.val >= 0)
    /\ \/ (t.start # End /\ ~InDoc(t.start, total))
       \/ (t.end # End /\ ~InDoc(t.end, total))

spinMoveVars == <<specs, margs, warnings, page_spec, page_numbers, indexed,
                  source_indices, target_indices, anchor_orig, anchor_final, args,
                  bindings, cropbox, angle, cm>>

\* The degrees a rotation keyword adds.
Delta(kw) ==
    CASE kw = "east" -> 90
      [] kw = "south" -> 180
      [] kw = "west" -> 270
      [] OTHER -> 0

\* A mutant of Rotated: the keyword's angle replaces the page's rotation.
Rotated_Absolute(page, kw) ==
    IF kw = "none" THEN page ELSE [page EXCEPT !.rotate = Delta(kw)]

\* The page with the keyword's delta added to the rotation it carries.
Rotated(page, kw) == [page EXCEPT !.rotate = (@ + Delta(kw)) % 360]

\* The resolved selection of a spec text: the page numbers in order, each
\* with the spec's rotation attached.
ResolveSelection(t, total) ==
    LET r == page_numbers_matching_page_spec(t, total)
    IN  [err |-> r.err,
         sel |-> [i \in 1..Len(r.nums) |-> [page |-> r.nums[i], rotation |-> t.rot]]]

\* The handle is bound by some declaration.
Declared(h) == \E i \in 1..Len(bindings) : bindings[i].handle = h

\* A mutant of Lookup: every handle gives the document declared first.
Lookup_First(h) == bindings[1].doc

\* The document bound to a declared handle.
Lookup(h) == bindings[CHOOSE i \in 1..Len(bindings) : bindings[i].handle = h].doc

\* The document a spec text selects from: the one bound to its handle, or
\* the first document when it names no handle.
DocOf(t) == IF t.handle = "" THEN pages ELSE Lookup(t.handle)

\* The resolved selection of a spec text of cat, against the page count of
\* its document; an undeclared handle is a reference error.
ResolveHandled(t) ==
    IF t.handle # "" /\ ~Declared(t.handle)
    THEN [err |-> "ReferenceError", sel |-> <<>>]
    ELSE ResolveSelection(t, Len(DocOf(t)))

CatBegin ==
    /\ cmd = "cat" /\ pc = "start"
    /\ total_pages' = Len(pages)
    /\ k' = 1
    /\ pc' = "cat_loop"
    /\ UNCHANGED <<cmd, pages, err, xlog, catspecs, out, tokens, expanded>>
    /\ UNCHANGED spinMoveVars

\* The spec at k does not resolve.
CatError ==
    /\ cmd = "cat" /\ pc = "cat_loop" /\ k <= Len(catspecs)
    /\ LET r == ResolveHandled(catspecs[k])
       IN  /\ r.err # "none"
           /\ err' = r.err
    /\ pc' = "error"
    /\ UNCHANGED <<cmd, pages, total_pages, k, xlog, catspecs, out, tokens, expanded>>
    /\ UNCHANGED spinMoveVars

\* The pages the spec at k selects are written, in the resolved order, each
\* with the spec's rotation.
CatStep ==
    /\ cmd = "cat" /\ pc = "cat_loop" /\ k <= Len(catspecs)
    /\ LET r == ResolveHandled(catspecs[k])
           doc == DocOf(catspecs[k])
       IN  /\ r.err = "none"
           /\ out' = out \o [i \in 1..Len(r.sel) |->
                                Rotated(doc[r.sel[i].page], r.sel[i].rotation)]
           /\ xlog' = xlog \o [i \in 1..Len(r.sel) |->
                                  [spec |-> k, page |-> r.sel[i].page]]
    /\ k' = k + 1
    /\ UNCHANGED <<cmd, pages, total_pages, pc, err, catspecs, tokens, expanded>>
    /\ UNCHANGED spinMoveVars

CatReturn ==
    /\ cmd = "cat" /\ pc = "cat_loop" /\ k > Len(catspecs)
    /\ pc' = "done"
    /\ UNCHANGED <<cmd, pages, total_pages, k, err, xlog, catspecs, out, tokens,
                   expanded>>
    /\ UNCHANGED spinMoveVars

\* A document whose pages carry the rotations r0, r0 + 90, ...
RotatedDocument(n, r0) ==
    [i \in 1..n |-> [id |-> i, rotate |-> (r0 + 90 * (i - 1)) % 360, ops |-> <<>>]]

Keywords == {"none", "north", "east", "south", "west"}

CatSels ==
    {SelRot(r[1], r[2], {}, <<>>, kw) : r \in {<<1, End>>, <<End, 1>>}, kw \in Keywords}
    \cup {SelRot(2, 2, {}, <<>>, "east"), SelRot(1, End, {"even"}, <<>>, "west")}

\* The sequences over S of 1 to n elements.
RECURSIVE SeqsUpTo(_, _)
SeqsUpTo(S, n) ==
    IF n = 0 THEN {}
    ELSE {<<x>> : x \in S}
         \cup {Append(l, x) : l \in SeqsUpTo(S, n - 1), x \in S}

InitCat ==
    /\ InitCommon
    /\ cmd = "cat"
    /\ \E n \in 1..MaxPages : \E r0 \in {0, 90, 180, 270} : pages = RotatedDocument(n, r0)
    /\ specs = <<>> /\ margs = NoMove
    /\ catspecs \in SeqsUpTo(CatSels, MaxCatSpecs)
    /\ out = <<>> /\ tokens = <<>> /\ expanded = <<>> /\ args = <<>>
    /\ bindings = <<>>
    /\ NoSpinMatrix

NextCat == CatBegin \/ CatError \/ CatStep \/ CatReturn

SpecCat == InitCat /\ [][NextCat]_vars

\* The texts of a cat spec without its rotation keyword.
Unrotated(t) == [t EXCEPT !.rot = "none"]

\* C8: a rotation keyword is a delta added to the page's own rotation modulo
\* 360 (north 0, east 90, south 180, west 270), attached to every entry of the
\* selection; north leaves the rotation as it was, and the keyword changes
\* neither which pages are selected nor their order.
C8_RotationDelta ==
    cmd = "cat" =>
        /\ Len(out) = Len(xlog)
        /\ \A i \in 1..Len(out) :
               LET kw == catspecs[xlog[i].spec].rot
                   page == pages[xlog[i].page]
                   d == CASE kw = "north" -> 0 [] kw = "east" -> 90
                          [] kw = "south" -> 180 [] kw = "west" -> 270
                          [] kw = "none" -> 0
               IN  /\ out[i].id = page.id
                   /\ out[i].rotate = (page.rotate + d) % 360
                   /\ kw = "north" => out[i] = page
        /\ \A j \in 1..Len(catspecs) :
               (j < k /\ pc # "start") =>
                   LET got == SelectSeq(xlog, LAMBDA x : x.spec = j)
                       plain == ResolveSelection(Unrotated(catspecs[j]), total_pages)
                   IN  /\ plain.err = "none"
                       /\ Len(got) = Len(plain.sel)
                       /\ \A i \in 1..Len(got) : got[i].page = plain.sel[i].page

\* `end-1 east` then `1-end north` on two pages that carry 270 and 0: the
\* first comes out at 0 and at 90 in reverse order, the second unchanged.
C8_Witness ==
    /\ cmd = "cat" /\ pc = "done" /\ Len(pages) = 2
    /\ pages[1].rotate = 270 /\ pages[2].rotate = 0
    /\ catspecs = <<SelRot(End, 1, {}, <<>>, "east"), SelRot(1, End, {}, <<>>, "north")>>
    /\ [i \in 1..Len(out) |-> out[i].id] = <<2, 1, 1, 2>>
    /\ [i \in 1..Len(out) |-> out[i].rotate] = <<90, 0, 270, 0>>

\* ------------------------- _expand_square_brackets, page_specs.py (not in src/)

\* A token is the sequence of its characters.  The first position of ch in s,
\* or 0.
IndexOf(s, ch) ==
    IF \E i \in 1..Len(s) : s[i] = ch
    THEN CHOOSE i \in 1..Len(s) : s[i] = ch /\ \A j \in 1..(i - 1) : s[j] # ch
    ELSE 0

\* str.strip(): the blanks at both ends removed.
RECURSIVE Strip(_)
Strip(s) ==
    IF s # <<>> /\ s[1] = " " THEN Strip(Tail(s))
    ELSE IF s # <<>> /\ s[Len(s)] = " " THEN Strip(SubSeq(s, 1, Len(s) - 1))
    ELSE s

\* str.split(",")
RECURSIVE SplitCommas(_)
SplitCommas(s) ==
    LET i == IndexOf(s, ",")
    IN  IF i = 0 THEN <<s>>
        ELSE <<SubSeq(s, 1, i - 1)>> \o SplitCommas(SubSeq(s, i + 1, Len(s)))

\* "[<inner>]<suffix>"
Bracketed(tok) == tok # <<>> /\ tok[1] = "[" /\ IndexOf(tok, "]") > 0

Inner(tok) == SubSeq(tok, 2, IndexOf(tok, "]") - 1)
Suffix(tok) == SubSeq(tok, IndexOf(tok, "]") + 1, Len(tok))

CommaError == "UserCommandLineError: Found a comma after the closing bracket"

\* A mutant of ExpandToken: the members keep their surrounding blanks.
ExpandToken_NoStrip(tok) ==
    IF ~Bracketed(tok) THEN [err |-> "none", toks |-> <<tok>>]
    ELSE IF IndexOf(Suffix(tok), ",") > 0 THEN [err |-> CommaError, toks |-> <<>>]
    ELSE LET members == SplitCommas(Inner(tok))
         IN  [err |-> "none",
              toks |-> [i \in 1..Len(members) |-> members[i] \o Suffix(tok)]]

\* A mutant of ExpandToken: a comma after the closing bracket is not refused.
ExpandToken_NoGuard(tok) ==
    IF ~Bracketed(tok) THEN [err |-> "none", toks |-> <<tok>>]
    ELSE LET members == SplitCommas(Inner(tok))
         IN  [err |-> "none",
              toks |-> [i \in 1..Len(members) |-> Strip(members[i]) \o Suffix(tok)]]

\* One token: itself, or one token per member of its group, or the error.
ExpandToken(tok) ==
    IF ~Bracketed(tok) THEN [err |-> "none", toks |-> <<tok>>]
    ELSE IF IndexOf(Suffix(tok), ",") > 0 THEN [err |-> CommaError, toks |-> <<>>]
    ELSE LET members == SplitCommas(Inner(tok))
         IN  [err |-> "none",
              toks |-> [i \in 1..Len(members) |-> Strip(members[i]) \o Suffix(tok)]]

\* The whole list: the expansions in token order, or the first error and no list.
RECURSIVE expand_square_brackets(_)
expand_square_brackets(toks) ==
    IF toks = <<>> THEN [err |-> "none", toks |-> <<>>]
    ELSE LET first == ExpandToken(toks[1])
             rest == expand_square_brackets(Tail(toks))
         IN  IF first.err # "none" THEN [err |-> first.err, toks |-> <<>>]
             ELSE IF rest.err # "none" THEN [err |-> rest.err, toks |-> <<>>]
             ELSE [err |-> "none", toks |-> first.toks \o rest.toks]

\* The call returns the expanded list.
Expand ==
    /\ cmd = "expand" /\ pc = "start"
    /\ expand_square_brackets(tokens).err = "none"
    /\ expanded' = expand_square_brackets(tokens).toks
    /\ pc' = "done"
    /\ UNCHANGED <<cmd, pages, total_pages, k, err, xlog, catspecs, out, tokens>>
    /\ UNCHANGED spinMoveVars

\* The call raises.
ExpandRaise ==
    /\ cmd = "expand" /\ pc = "start"
    /\ expand_square_brackets(tokens).err # "none"
    /\ err' = expand_square_brackets(tokens).err
    /\ expanded' = expand_square_brackets(tokens).toks
    /\ pc' = "error"
    /\ UNCHANGED <<cmd, pages, total_pages, k, xlog, catspecs, out, tokens>>
    /\ UNCHANGED spinMoveVars

\* "5", "2,3", "1-3e", "[1, 3]r90", "[1,2]x2", "[ 4 ]", "[1-2,7]e",
\* "[1, 2]x2, 3", "[3],1"
TokenTexts ==
    { <<"5">>,
      <<"2", ",", "3">>,
      <<"1", "-", "3", "e">>,
      <<"[", "1", ",", " ", "3", "]", "r", "9", "0">>,
      <<"[", "1", ",", "2", "]", "x", "2">>,
      <<"[", " ", "4", " ", "]">>,
      <<"[", "1", "-", "2", ",", "7", "]", "e">>,
      <<"[", "1", ",", " ", "2", "]", "x", "2", ",", " ", "3">>,
      <<"[", "3", "]", ",", "1">> }

InitExpand ==
    /\ InitCommon
    /\ cmd = "expand"
    /\ pages = <<>>
    /\ specs = <<>> /\ margs = NoMove
    /\ catspecs = <<>> /\ out = <<>>
    /\ tokens \in {<<>>} \cup SeqsUpTo(TokenTexts, MaxTokens)
    /\ expanded = <<>>
    /\ args = <<>>
    /\ bindings = <<>>
    /\ NoSpinMatrix

NextExpand == Expand \/ ExpandRaise

SpecExpand == InitExpand /\ [][NextExpand]_vars

\* The number of occurrences of ch in s.
Count(s, ch) == Cardinality({i \in 1..Len(s) : s[i] = ch})

\* s without its blanks.
Unblank(s) == SelectSeq(s, LAMBDA ch : ch # " ")

\* How many tokens token i of the argument becomes, and where they start.
Width(i) ==
    IF tokens[i][1] = "[" THEN 1 + Count(Inner(tokens[i]), ",") ELSE 1

RECURSIVE Offset(_)
Offset(i) == IF i = 1 THEN 0 ELSE Offset(i - 1) + Width(i - 1)

\* The members of a group written back with commas between them.
RECURSIVE JoinCommas(_)
JoinCommas(ms) ==
    IF Len(ms) = 1 THEN ms[1] ELSE ms[1] \o <<",">> \o JoinCommas(Tail(ms))

\* C9: bracket expansion replaces a token [m1,...,mk]suffix, at its position,
\* by the k tokens m1+suffix ... mk+suffix in member order, the members
\* stripped of surrounding blanks, and passes every token without a leading
\* `[` through unchanged and in place.
C9_BracketExpansion ==
    (cmd = "expand" /\ pc = "done") =>
        /\ tokens = <<>> => expanded = <<>>
        /\ tokens # <<>> => Len(expanded) = Offset(Len(tokens)) + Width(Len(tokens))
        /\ \A i \in 1..Len(tokens) :
               IF tokens[i][1] # "["
               THEN expanded[Offset(i) + 1] = tokens[i]
               ELSE LET suffix == Suffix(tokens[i])
                        block == SubSeq(expanded, Offset(i) + 1, Offset(i) + Width(i))
                        member == [m \in 1..Len(block) |->
                                      SubSeq(block[m], 1, Len(block[m]) - Len(suffix))]
                    IN  /\ \A m \in 1..Len(block) :
                               /\ Len(block[m]) >= Len(suffix)
                               /\ block[m] = member[m] \o suffix
                               /\ member[m] = <<>> \/
                                      (member[m][1] # " " /\ member[m][Len(member[m])] # " ")
                               /\ Count(member[m], ",") = 0
                        /\ Unblank(JoinCommas(member)) = Unblank(Inner(tokens[i]))
        /\ tokens = << <<"[", "1", ",", " ", "3", "]", "r", "9", "0">> >>
               => expanded = << <<"1", "r", "9", "0">>, <<"3", "r", "9", "0">> >>

\* "5" "[1,2]x2" has become "5" "1x2" "2x2".
C9_Witness ==
    /\ cmd = "expand" /\ pc = "done"
    /\ tokens = << <<"5">>, <<"[", "1", ",", "2", "]", "x", "2">> >>
    /\ expanded = << <<"5">>, <<"1", "x", "2">>, <<"2", "x", "2">> >>

\* The token is bracketed and has a comma after its closing bracket.
CommaAfterBracket(tok) ==
    /\ tok[1] = "["
    /\ \E i \in 1..Len(tok) :
           /\ tok[i] = "]"
           /\ \A j \in 1..(i - 1) : tok[j] # "]"
           /\ \E j \in (i + 1)..Len(tok) : tok[j] = ","

\* C10: if any bracketed token has a comma after its closing bracket, the
\* expansion fails with the syntax error 'Found a comma after the closing
\* bracket' and returns no list, not even the tokens before the offending one.
C10_CommaAfterBracket ==
    (cmd = "expand" /\ pc # "start"
     /\ \E i \in 1..Len(tokens) : CommaAfterBracket(tokens[i])) =>
        /\ pc = "error"
        /\ err = "UserCommandLineError: Found a comma after the closing bracket"
        /\ expanded = <<>>

\* "5" "[1, 2]x2, 3" has raised, and nothing was returned.
C10_Witness ==
    /\ cmd = "expand" /\ pc = "error"
    /\ tokens = << <<"5">>, <<"[", "1", ",", " ", "2", "]", "x", "2", ",", " ", "3">> >>
    /\ expanded = <<>>


\* ------------------------------ parse_move_args, parsers/move_parser.py 14-47

\* str.lower() on one character of the tokens used here.
LowerChar(ch) ==
    CASE ch = "A" -> "a"
      [] ch = "B" -> "b"
      [] ch = "E" -> "e"
      [] ch = "F" -> "f"
      [] ch = "O" -> "o"
      [] ch = "R" -> "r"
      [] ch = "T" -> "t"
      [] OTHER -> ch

\* arg.lower()
lower(arg) == [i \in 1..Len(arg) |-> LowerChar(arg[i])]

before == <<"b", "e", "f", "o", "r", "e">>
after == <<"a", "f", "t", "e", "r">>

\* arg.lower() in ("before", "after")
IsKeyword(arg) == lower(arg) \in {before, after}

\* A mutant of pivot_idx: the loop does not break, the last keyword wins.
pivot_idx_Last(as) ==
    IF \A i \in 1..Len(as) : ~IsKeyword(as[i]) THEN -1
    ELSE (CHOOSE i \in 1..Len(as) :
              IsKeyword(as[i]) /\ \A j \in (i + 1)..Len(as) : ~IsKeyword(as[j])) - 1

\* move_parser.py 25-32: the 0-based index of the first keyword, -1 without one.
pivot_idx(as) ==
    IF \A i \in 1..Len(as) : ~IsKeyword(as[i]) THEN -1
    ELSE (CHOOSE i \in 1..Len(as) :
              IsKeyword(as[i]) /\ \A j \in 1..(i - 1) : ~IsKeyword(as[j])) - 1

\* " ".join(list)
RECURSIVE join(_)
join(list) ==
    IF list = <<>> THEN <<>>
    ELSE IF Len(list) = 1 THEN list[1]
    ELSE list[1] \o <<" ">> \o join(Tail(list))

\* MoveSpec(source_spec, mode, target_spec)
MoveSpec(source, mode, target) ==
    [source_spec |-> source, mode |-> mode, target_spec |-> target]

\* move_parser.py 14-47: the error raised, or the MoveSpec returned.
parse_move_args(as) ==
    LET p == pivot_idx(as)
    IN  IF as = <<>> THEN [err |-> "UserCommandLineError", spec |-> NoMove]
        ELSE IF p = -1 THEN [err |-> "UserCommandLineError", spec |-> NoMove]
        ELSE IF p = 0 THEN [err |-> "UserCommandLineError", spec |-> NoMove]
        ELSE IF p = Len(as) - 1 THEN [err |-> "UserCommandLineError", spec |-> NoMove]
        ELSE [err |-> "none",
              spec |-> MoveSpec(join(SubSeq(as, 1, p)), lower(as[p + 1]),
                                join(SubSeq(as, p + 2, Len(as))))]

\* What parse_move_args leaves alone.
parseFrame == <<cmd, pages, total_pages, specs, k, warnings, page_spec, page_numbers,
                indexed, xlog, source_indices, target_indices,
                anchor_orig, anchor_final, catspecs,
                out, tokens, expanded, args, bindings,
                cropbox, angle, cm>>

\* move_parser.py 19-22: no arguments.
ParseMoveNoArgs ==
    /\ cmd = "parse_move_args" /\ pc = "start"
    /\ args = <<>>
    /\ err' = parse_move_args(args).err
    /\ pc' = "error"
    /\ UNCHANGED margs
    /\ UNCHANGED parseFrame

\* move_parser.py 34-35: no keyword.
ParseMoveNoKeyword ==
    /\ cmd = "parse_move_args" /\ pc = "start"
    /\ args # <<>> /\ pivot_idx(args) = -1
    /\ err' = parse_move_args(args).err
    /\ pc' = "error"
    /\ UNCHANGED margs
    /\ UNCHANGED parseFrame

\* move_parser.py 37-38: the keyword comes first.
ParseMoveNoSource ==
    /\ cmd = "parse_move_args" /\ pc = "start"
    /\ args # <<>> /\ pivot_idx(args) = 0
    /\ err' = parse_move_args(args).err
    /\ pc' = "error"
    /\ UNCHANGED margs
    /\ UNCHANGED parseFrame

\* move_parser.py 40-41: the keyword comes last.
ParseMoveNoTarget ==
    /\ cmd = "parse_move_args" /\ pc = "start"
    /\ args # <<>> /\ pivot_idx(args) > 0 /\ pivot_idx(args) = Len(args) - 1
    /\ err' = parse_move_args(args).err
    /\ pc' = "error"
    /\ UNCHANGED margs
    /\ UNCHANGED parseFrame

\* move_parser.py 44-47
ParseMoveReturn ==
    /\ cmd = "parse_move_args" /\ pc = "start"
    /\ parse_move_args(args).err = "none"
    /\ margs' = parse_move_args(args).spec
    /\ pc' = "done"
    /\ UNCHANGED err
    /\ UNCHANGED parseFrame

\* "3-5", "10", "before", "After", "BEFORE", "afterx"
ArgTexts ==
    { <<"3", "-", "5">>,
      <<"1", "0">>,
      before,
      <<"A", "f", "t", "e", "r">>,
      <<"B", "E", "F", "O", "R", "E">>,
      <<"a", "f", "t", "e", "r", "x">> }

InitMoveArgs ==
    /\ InitCommon
    /\ cmd = "parse_move_args"
    /\ pages = <<>>
    /\ specs = <<>> /\ margs = NoMove
    /\ catspecs = <<>> /\ out = <<>> /\ tokens = <<>> /\ expanded = <<>>
    /\ bindings = <<>>
    /\ NoSpinMatrix
    /\ args \in {<<>>} \cup SeqsUpTo(ArgTexts, MaxArgs)

NextMoveArgs ==
    \/ ParseMoveNoArgs
    \/ ParseMoveNoKeyword
    \/ ParseMoveNoSource
    \/ ParseMoveNoTarget
    \/ ParseMoveReturn

SpecMoveArgs == InitMoveArgs /\ [][NextMoveArgs]_vars

\* The words of a text: the pieces between its single spaces.
RECURSIVE Words(_)
Words(s) ==
    LET i == IndexOf(s, " ")
    IN  IF i = 0 THEN <<s>>
        ELSE <<SubSeq(s, 1, i - 1)>> \o Words(SubSeq(s, i + 1, Len(s)))

\* The positions of args that hold `before` or `after` in any letter case.
KeywordAt == {i \in 1..Len(args) : lower(args[i]) \in {before, after}}

FirstKeyword == CHOOSE i \in KeywordAt : \A j \in KeywordAt : i <= j

\* C11: parse_move_args returns a MoveSpec exactly when the first token equal,
\* case-insensitively, to before or after has tokens on both sides of it; then
\* source_spec is the tokens before it joined by single spaces, mode is the
\* token lower-cased, and target_spec is every token after it joined by single
\* spaces, later keywords included.  In every other case (no tokens, no
\* keyword, keyword first, keyword last) it raises UserCommandLineError.
C11_ParseMoveArgs ==
    (cmd = "parse_move_args" /\ pc # "start") =>
        LET ok == KeywordAt # {} /\ 1 < FirstKeyword /\ FirstKeyword < Len(args)
        IN  /\ pc = "done" <=> ok
            /\ pc = "error" <=> ~ok
            /\ pc = "error" => err = "UserCommandLineError" /\ margs = NoMove
            /\ pc = "done" =>
                /\ err = "none"
                /\ Words(margs.source_spec) = SubSeq(args, 1, FirstKeyword - 1)
                /\ margs.mode \in {before, after}
                /\ margs.mode = lower(args[FirstKeyword])
                /\ Words(margs.target_spec) = SubSeq(args, FirstKeyword + 1, Len(args))

\* "3-5 After 10 BEFORE" is parsed: source "3-5", mode "after", target
\* "10 BEFORE", the later keyword staying in the target.
C11_Witness ==
    /\ cmd = "parse_move_args" /\ pc = "done"
    /\ args = << <<"3", "-", "5">>, <<"A", "f", "t", "e", "r">>, <<"1", "0">>,
                 <<"B", "E", "F", "O", "R", "E">> >>
    /\ margs = MoveSpec(<<"3", "-", "5">>, after,
                        <<"1", "0", " ", "B", "E", "F", "O", "R", "E">>)


\* ------------------------------------------------------- move, the claims

\* The ids of the pages, in document order.
Ids(pgs) == [i \in 1..Len(pgs) |-> pgs[i].id]

\* move returned: by the warning of line 46 or after the insertion of line 83.
MoveDone == cmd = "move" /\ pc = "done"

\* move returned after removing and inserting pages.
Moved == MoveDone /\ source_indices # <<>>

SourceSel == page_numbers_matching_page_spec(margs.source_spec, Len(pages))
TargetSel == page_numbers_matching_page_spec(margs.target_spec, Len(pages))

EmptySel == [err |-> "none", nums |-> <<>>]

\* C13: a move whose source spec resolves to no pages succeeds with a warning
\* only, leaves the page sequence as it was, and never fails because of its
\* target spec, whatever that is.
C13_EmptySourceNoOp ==
    (cmd = "move" /\ SourceSel = EmptySel) =>
        /\ pc \in {"start", "move_source", "done"}
        /\ err = "none"
        /\ pages = Document(Len(pages))
        /\ pc = "done" => warnings = 1 /\ target_indices = <<>> /\ indexed = <<>>

\* The source matches no page and the target matches no page: move returned.
C13_Witness ==
    /\ MoveDone
    /\ Len(pages) = 3
    /\ SourceSel = EmptySel
    /\ TargetSel = EmptySel
    /\ warnings = 1

\* The same with a target that cannot be parsed at all.
C13_WitnessJunkTarget == MoveDone /\ SourceSel = EmptySel /\ margs.target_spec = Junk


\* C14: a move whose source matches at least one page and whose target spec
\* resolves to no pages fails with UserCommandLineError before any page is
\* removed or inserted: the page sequence stays what it was.
C14_EmptyTargetRaises ==
    (cmd = "move" /\ SourceSel.err = "none" /\ SourceSel.nums # <<>>
     /\ TargetSel = EmptySel) =>
        /\ pc \in {"start", "move_source", "move_target", "error"}
        /\ pages = Document(Len(pages))
        /\ warnings = 0
        /\ pc = "error" => err = "UserCommandLineError"
        /\ pc # "error" => err = "none"

\* move 2-3 before 1-end with both qualifiers on four pages has raised.
C14_Witness ==
    /\ cmd = "move" /\ pc = "error" /\ err = "UserCommandLineError"
    /\ margs = MoveSpec(Sel(2, 3, {}, <<>>), "before", Sel(1, End, {"even", "odd"}, <<>>))
    /\ source_indices = <<1, 2>>
    /\ Ids(pages) = <<1, 2, 3, 4>>


\* The pages the source selects and the pages the target selects, as sets of
\* original page numbers.
SourcePages == SeqToSet(SourceSel.nums)
TargetPages == SeqToSet(TargetSel.nums)

\* The first and the last page of the target range: its lowest and its
\* highest page number.
FirstOfTarget == CHOOSE p \in TargetPages : \A q \in TargetPages : p <= q
LastOfTarget == CHOOSE p \in TargetPages : \A q \in TargetPages : q <= p

\* Where the page originally numbered p stands now.
PositionOf(p) == CHOOSE j \in 1..Len(pages) : pages[j].id = p

\* The positions lo..hi hold the moved pages, all of them and nothing else.
BlockAt(lo, hi) ==
    /\ 1 <= lo /\ hi <= Len(pages)
    /\ hi - lo + 1 = Cardinality(SourcePages)
    /\ \A j \in lo..hi : pages[j].id \in SourcePages

C15_WitnessAfter ==
    /\ Moved
    /\ margs = MoveSpec(Sel(1, 1, {}, <<>>), "after", Sel(2, 3, {}, <<>>))
    /\ Ids(pages) = <<2, 3, 1, 4>>


\* move has resolved its target and computed the anchor.
Anchored == cmd = "move" /\ pc \in {"move_pages", "done"} /\ target_indices # <<>>

\* C20 as stated: the anchor is the index of the first element of the resolved
\* target selection when the mode is before and the index after its last
\* element when the mode is after, first and last in the order the target spec
\* resolves to.
C20_AnchorInResolvedOrder ==
    Anchored =>
        anchor_orig = IF margs.mode = "before"
                      THEN TargetSel.nums[1] - 1
                      ELSE TargetSel.nums[Len(TargetSel.nums)]

\* C20: the anchor is the index of the lowest-numbered page of the resolved
\* target selection when the mode is before and the index after its
\* highest-numbered page when the mode is after, whatever the order the
\* target spec resolves to: a descending range gives the anchor of the
\* ascending one.
C20_AnchorInPageOrder ==
    Anchored =>
        /\ anchor_orig = IF margs.mode = "before" THEN FirstOfTarget - 1 ELSE LastOfTarget
        /\ \A i \in 1..Len(target_indices) : target_indices[i] + 1 \in TargetPages
        /\ Len(target_indices) = Cardinality(TargetPages)

\* move 4 before 3-2 on four pages: the target resolves to 3, 2 and the
\* anchor is the index of page 2.
C20_Witness ==
    /\ Anchored /\ pc = "done"
    /\ margs = MoveSpec(Sel(4, 4, {}, <<>>), "before", Sel(3, 2, {}, <<>>))
    /\ TargetSel.nums = <<3, 2>>
    /\ anchor_orig = 1
    /\ Ids(pages) = <<1, 4, 2, 3>>


\* ------------------------------------------------ spin with several specs

\* "1-end", "1:90", "end-1:45", "1-endeven:180", "1-end~end-1:270",
\* "1-end:x", "0:x", "x:90", "1-end:x:90"
SpinSpecTexts ==
    { <<Sel(1, End, {}, <<>>)>>,
      <<Sel(1, 1, {}, <<>>), Num(90)>>,
      <<Sel(End, 1, {}, <<>>), Num(45)>>,
      <<Sel(1, End, {"even"}, <<>>), Num(180)>>,
      <<Sel(1, End, {}, << <<End, 1>> >>), Num(270)>>,
      <<Sel(1, End, {}, <<>>), Junk>>,
      <<Num(0), Junk>>,
      <<Junk, Num(90)>>,
      <<Sel(1, End, {}, <<>>), Junk, Num(90)>> }

InitSpin ==
    /\ InitCommon
    /\ NoOthers
    /\ cmd = "spin"
    /\ margs = NoMove
    /\ \E n \in 1..MaxPages : pages = Document(n)
    /\ specs \in SeqsUpTo(SpinSpecTexts, MaxSpecs)

NextSpin ==
    \/ SpinBegin
    \/ SpinSkip
    \/ SpinBadAngle
    \/ SpinParseError
    \/ SpinApply
    \/ SpinReturn

SpecSpin == InitSpin /\ [][NextSpin]_vars

\* spin is past line 56.
Spinning == cmd = "spin" /\ pc \in {"spin_loop", "done", "error"}

\* The pages spec j was applied to, in the order of the transforms.
LogOf(j) ==
    LET mine == SelectSeq(xlog, LAMBDA e : e.spec = j)
    IN  [i \in 1..Len(mine) |-> mine[i].page]

\* The spec at j has a colon, a numeric angle and a selection that parses.
WellFormed(j) ==
    /\ Len(specs[j]) > 1
    /\ IsFloat(angle_str(specs[j]))
    /\ parse_specs(page_sel_str(specs[j]), Len(pages)).err = "none"

NoColon(j) == Len(specs[j]) = 1

\* The pages lines 79-90 compute for the spec at j.
SpinSelection(j) ==
    SpinPageNumbers(parse_specs(page_sel_str(specs[j]), Len(pages)).spec)

\* The transforms a page carries, the latest first: the angles of the specs
\* among 1..n that were applied to it.
RECURSIVE OpsFrom(_, _)
OpsFrom(p, n) ==
    IF n = 0 THEN <<>>
    ELSE [i \in 1..Cardinality({x \in 1..Len(LogOf(n)) : LogOf(n)[x] = p}) |->
              angle_str(specs[n]).val] \o OpsFrom(p, n - 1)

\* C16: each spec is split at its last colon, the angle being the text after
\* it.  A spec without a colon is skipped with a warning only: no page is
\* transformed for it and nothing is raised at it, and every other spec of the
\* call, before and after it, is applied.
C16_NoColonSkipped ==
    Spinning =>
        /\ \A j \in 1..Len(specs) :
               NoColon(j) => LogOf(j) = <<>> /\ ~(pc = "error" /\ k = j)
        /\ \A j \in 1..Len(specs) :
               (~NoColon(j) /\ pc = "error" /\ k = j) =>
                   (err = "ValueError" <=> specs[j][Len(specs[j])].kind # "num")
        /\ warnings = Cardinality({j \in 1..Len(specs) : NoColon(j) /\ j < k})
        /\ \A p \in 1..Len(pages) : pages[p].ops = OpsFrom(p, Len(specs))
        /\ (\A j \in 1..Len(specs) : NoColon(j) \/ WellFormed(j)) =>
               /\ pc # "error"
               /\ \A j \in 1..Len(specs) :
                      (j < k /\ ~NoColon(j)) => LogOf(j) = SpinSelection(j)

\* "1:90", "1-end", "end-1:45" on two pages: the second spec is skipped, the
\* first and the third are applied.
C16_Witness ==
    /\ cmd = "spin" /\ pc = "done" /\ err = "none" /\ warnings = 1
    /\ specs = << <<Sel(1, 1, {}, <<>>), Num(90)>>, <<Sel(1, End, {}, <<>>)>>,
                  <<Sel(End, 1, {}, <<>>), Num(45)>> >>
    /\ Len(pages) = 2
    /\ pages[1].ops = <<45, 90>>
    /\ pages[2].ops = <<45>>


\* The spec the loop stands at has a colon and a text after the last colon
\* that is not a number.
BadAngleNext ==
    /\ InSpinLoop
    /\ ~NoColon(k)
    /\ specs[k][Len(specs[k])].kind # "num"

\* C17: a spec whose text after the last colon is not a number ends the call
\* with ValueError, before the selection of that spec is resolved and before
\* any page is transformed for it: the step taken at such a spec raises and
\* leaves the pages, the parsed spec and the page numbers as they were, even
\* when the selection itself could not be resolved; nothing runs after it.
C17_BadAngleFatal ==
    [][/\ pc # "error"
       /\ BadAngleNext =>
              /\ pc' = "error" /\ err' = "ValueError"
              /\ pages' = pages /\ xlog' = xlog
              /\ page_spec' = page_spec /\ page_numbers' = page_numbers
              /\ k' = k]_vars

\* "1:90", "0:x", "end-1:45" on two pages: the second spec has raised
\* ValueError, not the range error of its selection; page 1 carries the
\* transform of the first spec and nothing else was transformed.
C17_Witness ==
    /\ cmd = "spin" /\ pc = "error" /\ err = "ValueError" /\ k = 2
    /\ specs = << <<Sel(1, 1, {}, <<>>), Num(90)>>, <<Num(0), Junk>>,
                  <<Sel(End, 1, {}, <<>>), Num(45)>> >>
    /\ Len(pages) = 2
    /\ pages[1].ops = <<90>> /\ pages[2].ops = <<>>
    /\ LogOf(2) = <<>>


\* The spec at j has a colon and a numeric angle.
ValidAngle(j) == Len(specs[j]) > 1 /\ IsFloat(angle_str(specs[j]))

\* The resolved selection of the spec at j: what the resolver of section 4.4
\* yields for its selection text.
ResolvedSelection(j) ==
    IF Len(specs[j]) = 2
    THEN page_numbers_matching_page_spec(specs[j][1], Len(pages))
    ELSE [err |-> "SyntaxError", nums |-> <<>>]

\* How often p occurs in the sequence s.
Occurrences(s, p) == Cardinality({i \in 1..Len(s) : s[i] = p})

\* spin leaves the number, the order and the stated rotation of the pages
\* alone, and a page carries one transform for each transform logged for it.
SpinKeepsPages ==
    /\ Ids(pages) = [i \in 1..total_pages |-> i]
    /\ \A p \in 1..Len(pages) :
           /\ pages[p].rotate = 0
           /\ pages[p].ops = OpsFrom(p, Len(specs))

\* C18: spin never changes the number or the order of the pages; a page
\* receives a transform only if its number is in the resolved selection of
\* some spec with a valid angle, every page outside all selections being left
\* untouched; and each spec applies exactly one transform to each page it
\* selects.
C18_SpinFrame ==
    Spinning =>
        /\ SpinKeepsPages
        /\ \A p \in 1..Len(pages) :
               pages[p].ops # <<>> =>
                   \E j \in 1..Len(specs) :
                       /\ ValidAngle(j)
                       /\ ResolvedSelection(j).err = "none"
                       /\ p \in SeqToSet(ResolvedSelection(j).nums)
        /\ \A j \in 1..Len(specs) : \A p \in 1..Len(pages) :
               /\ Occurrences(LogOf(j), p) <= 1
               /\ (j < k /\ ValidAngle(j) /\ ResolvedSelection(j).err = "none"
                   /\ p \in SeqToSet(ResolvedSelection(j).nums)) =>
                      Occurrences(LogOf(j), p) = 1

\* The same with the selection lines 79-90 of spin compute in place of the
\* resolved selection of section 4.4.
SpinFrameOwnSelection ==
    Spinning =>
        /\ SpinKeepsPages
        /\ \A p \in 1..Len(pages) :
               pages[p].ops # <<>> =>
                   \E j \in 1..Len(specs) :
                       WellFormed(j) /\ p \in SeqToSet(SpinSelection(j))
        /\ \A j \in 1..Len(specs) : \A p \in 1..Len(pages) :
               /\ Occurrences(LogOf(j), p) <= 1
               /\ (j < k /\ WellFormed(j) /\ p \in SeqToSet(SpinSelection(j))) =>
                      Occurrences(LogOf(j), p) = 1


\* -------------------------------------------------------- cat with handles

\* An input document of n pages whose page ids start after base.
InputDocument(base, n) == [i \in 1..n |-> Page(base + i)]

\* A binding handle=document of the command line.
Binding(h, d) == [handle |-> h, doc |-> d]

\* "A", "B", "Bend-1", "A1", "1-end", "C"
HandleSpecs ==
    { Bare("A"), Bare("B"),
      Handled("B", Sel(End, 1, {}, <<>>)),
      Handled("A", Sel(1, 1, {}, <<>>)),
      Sel(1, End, {}, <<>>),
      Bare("C") }

\* Two documents bound to A and B, declared in either order; the document
\* declared first is the one a spec without a handle selects from.
InitCatHandles ==
    /\ InitCommon
    /\ cmd = "cat"
    /\ specs = <<>> /\ margs = NoMove
    /\ out = <<>> /\ tokens = <<>> /\ expanded = <<>> /\ args = <<>>
    /\ NoSpinMatrix
    /\ \E a \in 1..MaxPages : \E b \in 1..MaxPages :
           LET A == Binding("A", InputDocument(0, a))
               B == Binding("B", InputDocument(MaxPages, b))
           IN  bindings \in {<<A, B>>, <<B, A>>}
    /\ pages = bindings[1].doc
    /\ catspecs \in SeqsUpTo(HandleSpecs, MaxCatSpecs)

SpecCatHandles == InitCatHandles /\ [][NextCat]_vars

\* The document a handle was declared with.
DocumentOfHandle(h) == (CHOOSE b \in SeqToSet(bindings) : b.handle = h).doc

\* The whole documents of the first n spec tokens, one after the other.
RECURSIVE WholeDocuments(_)
WholeDocuments(n) ==
    IF n = 0 THEN <<>>
    ELSE WholeDocuments(n - 1) \o DocumentOfHandle(catspecs[n].handle)

\* C19: with handles A and B bound to two documents, `cat B A` writes every
\* page of B's document in order and then every page of A's document in
\* order, whichever handle was declared first; in general a bare handle
\* selects pages 1..end of its document, and the output follows the order of
\* the spec tokens.
C19_CatHandles ==
    (cmd = "cat" /\ bindings # <<>> /\ pc = "done") =>
        /\ err = "none"
        /\ (\A i \in 1..Len(catspecs) : catspecs[i].kind = "bare") =>
               out = WholeDocuments(Len(catspecs))
        /\ catspecs = <<Bare("B"), Bare("A")>> =>
               /\ Len(out) = Len(DocumentOfHandle("B")) + Len(DocumentOfHandle("A"))
               /\ \A i \in 1..Len(out) :
                      out[i] = IF i <= Len(DocumentOfHandle("B"))
                               THEN DocumentOfHandle("B")[i]
                               ELSE DocumentOfHandle("A")[i - Len(DocumentOfHandle("B"))]

\* A=three pages B=two pages cat B A, A declared first: B's two pages, then
\* A's three.
C19_Witness ==
    /\ cmd = "cat" /\ pc = "done"
    /\ bindings # <<>> /\ bindings[1].handle = "A"
    /\ catspecs = <<Bare("B"), Bare("A")>>
    /\ Len(DocumentOfHandle("A")) = 3 /\ Len(DocumentOfHandle("B")) = 2
    /\ Ids(out) = Ids(DocumentOfHandle("B")) \o <<1, 2, 3>>


\* C21: the final insertion position is the anchor less the number of source
\* pages whose index is strictly below the anchor, for every source, target
\* and mode; moving pages 3 and 5 after page 10 of ten pages gives 10 - 2 = 8.
C21_AnchorArithmetic ==
    Anchored =>
        /\ anchor_final =
               anchor_orig - Cardinality({p \in SourcePages : p - 1 < anchor_orig})
        /\ margs = MoveOddAfterTen => anchor_orig = 10 /\ anchor_final = 8

\* move 3-5odd after 10 on ten pages: pages 3 and 5 stand last.
C21_Witness ==
    /\ Moved
    /\ margs = MoveOddAfterTen
    /\ source_indices = <<2, 4>>
    /\ anchor_orig = 10 /\ anchor_final = 8
    /\ Ids(pages) = <<1, 2, 4, 6, 7, 8, 9, 10, 3, 5>>


\* The ids of the pages standing at the insertion position, as many as the
\* source selects.
MovedBlock ==
    SubSeq(Ids(pages), anchor_final + 1, anchor_final + Len(SourceSel.nums))

\* C22 as stated: after a successful move the moved pages form one contiguous
\* block at the insertion position, in the order of the resolved source
\* selection, so that the source 5-3 yields the block 5, 4, 3.
C22_BlockInResolvedOrder ==
    Moved =>
        /\ anchor_final + Len(SourceSel.nums) <= Len(pages)
        /\ MovedBlock = SourceSel.nums

\* C22: after a successful move the moved pages form one contiguous block at
\* the insertion position, in ascending page order whatever the order the
\* source spec resolves to: a descending source range yields the block of the
\* ascending one.
C22_BlockInPageOrder ==
    Moved =>
        /\ 0 <= anchor_final
        /\ anchor_final + Len(SourceSel.nums) <= Len(pages)
        /\ MovedBlock = SortSeq(SourceSel.nums, <)
        /\ \A j \in 1..Len(pages) :
               (j <= anchor_final \/ j > anchor_final + Len(SourceSel.nums)) =>
                   pages[j].id \notin SourcePages

\* move 3-2 before 1 on four pages: the source resolves to 3, 2 and the block
\* is 2, 3.
C22_Witness ==
    /\ Moved
    /\ margs = MoveSpec(Sel(3, 2, {}, <<>>), "before", Sel(1, 1, {}, <<>>))
    /\ SourceSel.nums = <<3, 2>>
    /\ anchor_final = 0
    /\ Ids(pages) = <<2, 3, 1, 4>>


\* ------------------------------------- move with a page selected twice

\* Sources "a-b,c-d", one that does not parse and one that matches no page;
\* targets of one page, one that does not parse and one that matches no page.
InitMoveDup ==
    /\ InitCommon
    /\ NoOthers
    /\ cmd = "move"
    /\ specs = <<>>
    /\ \E n \in 1..MaxPages :
           LET ranges == {Sel(a, b, {}, <<>>) : a \in 1..n, b \in 1..n}
               nothing == Sel(1, End, {"even", "odd"}, <<>>)
           IN  /\ pages = Document(n)
               /\ margs \in
                      [source_spec : {CommaList(<<x, y>>) : x \in ranges, y \in ranges}
                                         \cup {Junk, nothing},
                       mode : {"before", "after"},
                       target_spec : {Sel(s, s, {}, <<>>) : s \in 1..n}
                                         \cup {Junk, nothing}]

NextMoveDup ==
    \/ MoveBegin
    \/ MoveSourceError
    \/ MoveSourceEmpty
    \/ MoveSource
    \/ MoveTargetError
    \/ MoveTargetEmpty
    \/ MoveTarget
    \/ MoveDeleteError
    \/ MovePerform

SpecMoveDup == InitMoveDup /\ [][NextMoveDup]_vars

\* The resolved source selection holds some page more than once.
SourceHasDuplicate ==
    /\ SourceSel.err = "none"
    /\ Cardinality(SourcePages) < Len(SourceSel.nums)

\* C23: when the resolved source selection holds a page number more than
\* once, the move is permitted, the page stands in the moved block once for
\* each occurrence, and no page outside the source selection is removed from
\* the document.
C23_DuplicatesMoved ==
    (cmd = "move" /\ pc \in {"move_pages", "done", "error"} /\ SourceHasDuplicate
     /\ TargetSel.err = "none" /\ TargetSel.nums # <<>>) =>
        /\ pc # "error"
        /\ pc = "done" =>
               /\ \A p \in SourcePages :
                      Occurrences(Ids(pages), p) = Occurrences(SourceSel.nums, p)
               /\ \A p \in (1..total_pages) \ SourcePages :
                      Occurrences(Ids(pages), p) = 1


\* C24: for every page selection and every page count, the page numbers spin
\* transforms for a spec are, in the same order, the selection the resolver
\* of section 4.4 yields for that spec and page count.
C24_SpinEqualsResolver ==
    Applied =>
        /\ page_numbers_matching_page_spec(LastText, total_pages).err = "none"
        /\ page_numbers = page_numbers_matching_page_spec(LastText, total_pages).nums
        /\ err = "none" => LogOf(k - 1) = page_numbers

\* The same for the selections whose omissions are all written low bound
\* first.
SpinEqualsResolverLowFirst ==
    (Applied /\ \A i \in 1..Len(page_spec.omissions) :
                    page_spec.omissions[i][1] <= page_spec.omissions[i][2]) =>
        /\ page_numbers = page_numbers_matching_page_spec(LastText, total_pages).nums
        /\ err = "none" => LogOf(k - 1) = page_numbers


\* ------------------------------------------- apply_spin, spin.py 104-120

\* math.cos and math.sin of an angle in degrees, for the multiples of 90.
Cos(a) ==
    CASE a % 360 = 0 -> 1
      [] a % 360 = 90 -> 0
      [] a % 360 = 180 -> -1
      [] a % 360 = 270 -> 0

Sin(a) ==
    CASE a % 360 = 0 -> 0
      [] a % 360 = 90 -> 1
      [] a % 360 = 180 -> 0
      [] a % 360 = 270 -> -1

\* A mutant of SpinMatrix: the sign of one term of ty is wrong.
SpinMatrix_SignSlip(box, a) ==
    LET c == Cos(a)
        s == Sin(a)
        x0 == box[1] + box[3]
        y0 == box[2] + box[4]
    IN  <<c, s, -s, c, x0 - c * x0 + s * y0, y0 + s * x0 - c * y0>>

\* spin.py 106-119: the six numbers of the `cm` operator.  The centre x0, y0
\* is half a sum of two coordinates; x0, y0 and the translation are kept in
\* halves, so that a value v stands for v / 2.
SpinMatrix(box, a) ==
    LET c == Cos(a)
        s == Sin(a)
        x0 == box[1] + box[3]
        y0 == box[2] + box[4]
    IN  <<c, s, -s, c, x0 - c * x0 + s * y0, y0 - s * x0 - c * y0>>

\* apply_spin(page, angle)
ApplySpin ==
    /\ cmd = "apply_spin" /\ pc = "start"
    /\ cm' = SpinMatrix(cropbox, angle)
    /\ pc' = "done"
    /\ UNCHANGED <<cmd, pages, total_pages, specs, k, margs, err, warnings, page_spec,
                   page_numbers, indexed, xlog, source_indices, target_indices,
                   anchor_orig, anchor_final, catspecs, out, tokens, expanded, args,
                   bindings, cropbox, angle>>

\* The multiples of 90 degrees of up to two turns either way.
RightAngles == {90 * i : i \in (-8)..8}

InitApplySpin ==
    /\ InitCommon
    /\ cmd = "apply_spin"
    /\ pages = <<>>
    /\ specs = <<>> /\ margs = NoMove
    /\ catspecs = <<>> /\ out = <<>> /\ tokens = <<>> /\ expanded = <<>>
    /\ args = <<>> /\ bindings = <<>>
    /\ cropbox \in (0..MaxCoord) \X (0..MaxCoord) \X (0..MaxCoord) \X (0..MaxCoord)
    /\ angle \in RightAngles
    /\ cm = <<>>

NextApplySpin == ApplySpin

SpecApplySpin == InitApplySpin /\ [][NextApplySpin]_vars

\* The image, in halves, of the point (x / 2, y / 2) under the matrix
\* [a b c d e f] of a `cm` operator whose e and f are in halves:
\* x' = a x + c y + e, y' = b x + d y + f.
Image(m, x, y) == <<m[1] * x + m[3] * y + m[5], m[2] * x + m[4] * y + m[6]>>

\* C25: the matrix spin puts in front of a page is a pure rotation about the
\* centre of the crop box: its determinant is 1, it has the form
\* [c s -s c tx ty], and it maps the centre ((x0 + x1) / 2, (y0 + y1) / 2) to
\* itself, for every multiple of 90 degrees.
C25_RotationAboutCentre ==
    (cmd = "apply_spin" /\ pc = "done") =>
        LET cx == cropbox[1] + cropbox[3]
            cy == cropbox[2] + cropbox[4]
        IN  /\ cm[1] * cm[4] - cm[2] * cm[3] = 1
            /\ cm[4] = cm[1] /\ cm[3] = -cm[2]
            /\ Image(cm, cx, cy) = <<cx, cy>>
            /\ angle % 360 = 0 => cm = <<1, 0, 0, 1, 0, 0>>
            /\ angle = 90 => Image(cm, cropbox[3] * 2, cy) = <<cx, cy + (cropbox[3] * 2 - cx)>>

\* A quarter turn of the box 0 0 2 3, centre (1, 1.5): 0 1 -1 0 2.5 0.5.
C25_Witness ==
    /\ cmd = "apply_spin" /\ pc = "done"
    /\ cropbox = <<0, 0, 2, 3>> /\ angle = 90
    /\ cm = <<0, 1, -1, 0, 5, 1>>


\* ------------------------------------ the page count a call resolves against

\* Calls of spin with up to MaxSpecs specs and calls of move.
InitCalls ==
    \/ InitSpin
    \/ Init /\ cmd = "move"

SpecCalls == InitCalls /\ [][Next]_vars

\* No page has been removed from or inserted into the document since the call
\* began: the pages stand in their original order.
Untouched == Ids(pages) = [i \in 1..Len(pages) |-> i]

\* C26: every spec is resolved against the page count the document had when
\* the call began.  In move the source and the target are both resolved, against
\* that count, while no page has yet been removed or inserted; in spin the
\* count read at the start is the count every spec is parsed with, the first
\* and the k-th alike.
C26_InitialPageCount ==
    /\ (cmd = "move" /\ pc \in {"move_source", "move_target", "move_pages", "error"}) =>
           Untouched /\ total_pages = Len(pages)
    /\ (cmd = "move" /\ pc \in {"move_target", "move_pages"}) =>
           source_indices = SortedIndices(SourceSel.nums)
    /\ (cmd = "move" /\ pc = "move_pages") =>
           target_indices = SortedIndices(TargetSel.nums)
    /\ Spinning =>
           /\ Untouched /\ total_pages = Len(pages)
           /\ (pc = "spin_loop" /\ k > 1 /\ WellFormed(k - 1)) =>
                  page_spec = parse_specs(page_sel_str(specs[k - 1]), Len(pages)).spec

\* move 1 after end on four pages, at line 72: both specs are resolved, `end`
\* as page 4, and the document is as it was.
C26_Witness ==
    /\ cmd = "move" /\ pc = "move_pages"
    /\ margs = MoveSpec(Sel(1, 1, {}, <<>>), "after", Sel(End, End, {}, <<>>))
    /\ source_indices = <<0>> /\ target_indices = <<3>>
    /\ pages = Document(4)

\* spin 1:90 end-1:45 on three pages, after the second spec: `end` is page 3.
C26_WitnessSpin ==
    /\ cmd = "spin" /\ pc = "spin_loop" /\ k = 3
    /\ specs = << <<Sel(1, 1, {}, <<>>), Num(90)>>, <<Sel(End, 1, {}, <<>>), Num(45)>>,
                  <<Sel(1, End, {"even"}, <<>>), Num(180)>> >>
    /\ Len(pages) = 3
    /\ page_spec.start = 3 /\ page_spec.end = 1


\* ---------------------------------------------- the pages move leaves alone

\* The pages of a sequence of ids that the source does not select, in the
\* order they stand in.
NotMoved(ids) == SelectSeq(ids, LAMBDA p : p \notin SourcePages)

DistinctSource == Cardinality(SeqToSet(source_indices)) = Len(source_indices)

\* C28: for a source selection of k distinct pages, a non-empty target
\* selection and either mode on a document of n pages, overlapping source and
\* target and `after` the last page included, 0 <= anchor_final <= n - k: the
\* position is an insertion index of the document left when the k source
\* pages are out.
C28_AnchorFinalInRange ==
    (Anchored /\ DistinctSource) =>
        /\ Len(source_indices) = Cardinality(SourcePages)
        /\ 0 <= anchor_final
        /\ anchor_final <= total_pages - Len(source_indices)
        /\ pc = "move_pages" =>
               anchor_final <= Len(DelAll(pages, source_indices))

\* move 3-4 after 2-4 on four pages, at line 72: the anchor is 4, both source
\* pages are below it, and the position is 2 = n - k.
C28_Witness ==
    /\ cmd = "move" /\ pc = "move_pages"
    /\ margs = MoveSpec(Sel(3, 4, {}, <<>>), "after", Sel(2, 4, {}, <<>>))
    /\ total_pages = 4 /\ source_indices = <<2, 3>>
    /\ anchor_orig = 4 /\ anchor_final = 2

\* move 3-4 before 1 on four pages, at line 72: the position is 0.
C28_WitnessZero ==
    /\ cmd = "move" /\ pc = "move_pages"
    /\ margs = MoveSpec(Sel(3, 4, {}, <<>>), "before", Sel(1, 1, {}, <<>>))
    /\ total_pages = 4
    /\ anchor_final = 0


\* ------------------------------------------- moving a block to where it is

\* The source resolves to the pages a..b in ascending order.
BlockSource ==
    /\ SourceSel.err = "none" /\ SourceSel.nums # <<>>
    /\ SourceSel.nums = [i \in 1..Len(SourceSel.nums) |-> SourceSel.nums[1] + i - 1]

FirstOfSource == SourceSel.nums[1]
LastOfSource == SourceSel.nums[Len(SourceSel.nums)]

\* The target is one page, and the move asks for the place the block has:
\* before the page after it, after the page before it, or before or after a
\* page of the block.
InPlace ==
    /\ BlockSource
    /\ Cardinality(TargetPages) = 1
    /\ \/ margs.mode = "before" /\ FirstOfTarget = LastOfSource + 1
       \/ margs.mode = "after" /\ FirstOfTarget = FirstOfSource - 1
       \/ FirstOfSource <= FirstOfTarget /\ FirstOfTarget <= LastOfSource

\* C29: moving a contiguous ascending block of pages a..b to where it already
\* is leaves the page sequence unchanged: `before b+1`, `after a-1`, and
\* before or after a page inside a..b.
C29_MoveInPlace ==
    (Moved /\ InPlace) =>
        /\ Untouched
        /\ anchor_final = FirstOfSource - 1

\* move 2-3 before 3 on four pages: the target is in the block.
C29_Witness ==
    /\ Moved /\ InPlace
    /\ margs = MoveSpec(Sel(2, 3, {}, <<>>), "before", Sel(3, 3, {}, <<>>))
    /\ Ids(pages) = <<1, 2, 3, 4>>

\* move 2-3 after 1 and move 2-3 before end on four pages.
C29_WitnessAfter ==
    /\ Moved /\ InPlace
    /\ margs = MoveSpec(Sel(2, 3, {}, <<>>), "after", Sel(1, 1, {}, <<>>))
    /\ Ids(pages) = <<1, 2, 3, 4>>

C29_WitnessBefore ==
    /\ Moved /\ InPlace
    /\ margs = MoveSpec(Sel(2, 3, {}, <<>>), "before", Sel(End, End, {}, <<>>))
    /\ Ids(pages) = <<1, 2, 3, 4>>


\* --------------------------------------------- a spec of spin that raises

\* spin has raised at the spec at k.
SpinRaised == cmd = "spin" /\ pc = "error"

\* C30: spin processes its specs strictly in the given order and is not
\* all-or-nothing: when the k-th spec raises, for a non-numeric angle or a
\* selection that does not parse, no transform of that spec or of a later one
\* has been applied, and every transform of the specs 1..k-1 is in the
\* document: each page carries exactly the angles of the specs before k that
\* selected it, the latest first.
C30_RaiseKeepsEarlierSpecs ==
    SpinRaised =>
        /\ k \in 1..Len(specs)
        /\ ~NoColon(k) /\ ~WellFormed(k)
        /\ \A i \in 1..Len(xlog) : xlog[i].spec < k
        /\ \A i, j \in 1..Len(xlog) : i < j => xlog[i].spec <= xlog[j].spec
        /\ \A j \in 1..(k - 1) :
               /\ WellFormed(j) \/ NoColon(j)
               /\ WellFormed(j) => LogOf(j) = SpinSelection(j)
               /\ NoColon(j) => LogOf(j) = <<>>
        /\ \A p \in 1..Len(pages) : pages[p].ops = OpsFrom(p, k - 1)

\* spin 1:90 end-1:45 1-end:x on two pages: the third spec raises, page 1
\* carries the transforms of the first two specs and page 2 that of the second.
C30_Witness ==
    /\ SpinRaised /\ k = 3 /\ err = "ValueError"
    /\ specs = << <<Sel(1, 1, {}, <<>>), Num(90)>>, <<Sel(End, 1, {}, <<>>), Num(45)>>,
                  <<Sel(1, End, {}, <<>>), Junk>> >>
    /\ Len(pages) = 2
    /\ pages[1].ops = <<45, 90>> /\ pages[2].ops = <<45>>

\* spin 1:90 x:90 on one page: the selection of the second spec does not
\* parse, and page 1 carries the transform of the first.
C30_WitnessSelection ==
    /\ SpinRaised /\ k = 2 /\ err # "ValueError"
    /\ specs = << <<Sel(1, 1, {}, <<>>), Num(90)>>, <<Junk, Num(90)>> >>
    /\ Len(pages) = 1
    /\ pages[1].ops = <<90>>

====
